---- MODULE Spec2Model ----
(***************************************************************************)
(* Model of src/property_calculator.py: the per-molecule property          *)
(* evaluator (calculate_advanced_properties), the batch driver             *)
(* (calculate_advanced_properties_parallel) and the reward aggregator      *)
(* (calculate_multi_objective_reward).                                     *)
(*                                                                         *)
(* Numbers are fixed point.  Property values (QED, pIC50, TPSA, ...) are   *)
(* integers in hundredths, weights are integers in thousandths, sigmoid    *)
(* values and rewards are integers in ten-thousandths.  A Python value is  *)
(* a record [py |-> "None"], [py |-> "dict", d |-> f] with f a function    *)
(* from keys to values, or [py |-> "raise"] for a call that ended by       *)
(* raising.                                                                *)
(***************************************************************************)
EXTENDS Integers, Sequences, FiniteSets, TLC

VARIABLES
    sascorer_available, \* environment: does `import sascorer` succeed
    PAINS_CATALOG,      \* the process-wide structural-alert catalog
    sys_path,           \* number of entries appended to sys.path
    sys_modules,        \* TRUE once sascorer is in sys.modules
    log,                \* number of warnings emitted through logger
    smiles,             \* calculate_advanced_properties: argument
    models,             \* calculate_advanced_properties: <<keap1_m, egfr_m, ikkb_m>>
    ret,                \* calculate_advanced_properties: outcome of the last call
    props,              \* calculate_multi_objective_reward: argument
    weights,            \* ... its local `weights` when it returned
    total_weight,       \* ... its local `total_weight`
    reward,             \* ... its returned value
    props2,             \* a second argument, differing from props in pIC50_KEAP1
    reward2,            \* the reward of props2
    smiles_list,        \* calculate_advanced_properties_parallel: argument
    pos,                \* ... number of elements the loop has consumed
    results,            \* ... its local `results`
    pc                  \* ... "idle", "loop", "returned" or "raised"

vars == <<sascorer_available, PAINS_CATALOG, sys_path, sys_modules, log,
          smiles, models, ret, props, weights, total_weight, reward,
          props2, reward2, smiles_list, pos, results, pc>>

globals == <<sascorer_available, PAINS_CATALOG, sys_path, sys_modules, log>>
evalVars == <<smiles, models, ret>>
rewardVars == <<props, weights, total_weight, reward, props2, reward2>>
batchVars == <<smiles_list, pos, results, pc>>

----------------------------------------------------------------------------
(* Bounds of the model. *)

\* longest list handed to the batch driver
MaxLen == 3
\* most sys.path entries and log entries one behaviour accumulates
MaxCalls == 2

----------------------------------------------------------------------------
(* Python values. *)

None == [py |-> "None"]
Raised == [py |-> "raise"]
Dict(f) == [py |-> "dict", d |-> f]
NoValue == [py |-> "unset"]

\* `not v` for None and for a dict
Falsy(v) == v.py = "None" \/ (v.py = "dict" /\ DOMAIN v.d = {})
\* v.get(key, default)
Get(v, key, default) == IF key \in DOMAIN v.d THEN v.d[key] ELSE default

----------------------------------------------------------------------------
(* Fixed point. *)

Unit == 10 * 1000           \* 1.0 as a sigmoid value or a reward
Abs(x) == IF x < 0 THEN -x ELSE x
Min(a, b) == IF a < b THEN a ELSE b
Max(a, b) == IF a > b THEN a ELSE b

\* round(Unit * exp(-n)) for n = 0 .. 10
ExpTable == <<10000, 3679, 1353, 498, 183, 67, 25, 9, 3, 1, 0>>

\* np.exp(-t) for t >= 0 in thousandths, in ten-thousandths: the table,
\* interpolated linearly; exp(-t) rounds to 0 from t = 10 on.
ExpNeg(t) ==
    IF t >= 10000 THEN 0
    ELSE LET n == t \div 1000
             f == t % 1000
             a == ExpTable[n + 1]
             b == ExpTable[n + 2]
         IN  a - ((a - b) * f) \div 1000

----------------------------------------------------------------------------
(* calculate_multi_objective_reward and _sigmoid. *)

\* _sigmoid with the sign of the exponent lost: 1 / (1 + np.exp(k * (x - x0)))
_sigmoid_decreasing(x, k10, x0) ==
    LET z == k10 * (x - x0)
    IN  IF z >= 0 THEN (Unit * ExpNeg(z)) \div (Unit + ExpNeg(z))
        ELSE (Unit * Unit) \div (Unit + ExpNeg(-z))

\* 1 / (1 + np.exp(-k * (x - x0))), x and x0 in hundredths, k10 = 10 * k.
\* (The `x is None` branch is not modelled: every field is a number.)
_sigmoid(x, k10, x0) ==
    LET z == k10 * (x - x0)
    IN  IF z >= 0 THEN (Unit * Unit) \div (Unit + ExpNeg(z))
        ELSE (Unit * ExpNeg(-z)) \div (Unit + ExpNeg(-z))

\* the `weights` literal, in thousandths
DefaultWeights ==
    [r_pic50 |-> 350, r_sel |-> 200, r_qed |-> 150,
     r_cns |-> 100, r_bbb |-> 100, r_sa |-> 100]

\* the redistribution adding the whole of redist_weight to each weight
RedistributeAll(w) ==
    LET redist_weight == w.r_pic50 + w.r_sel
    IN  [w EXCEPT !.r_pic50 = 0, !.r_sel = 0,
                  !.r_qed = @ + redist_weight,
                  !.r_sa = @ + redist_weight]

\* the redistribution adding a quarter of redist_weight to each weight
RedistributeQuarter(w) ==
    LET redist_weight == w.r_pic50 + w.r_sel
    IN  [w EXCEPT !.r_pic50 = 0, !.r_sel = 0,
                  !.r_qed = @ + redist_weight \div 4,
                  !.r_sa = @ + redist_weight \div 4]

\* the body of `if 'pIC50_KEAP1' not in props:`
Redistribute(w) ==
    LET redist_weight == w.r_pic50 + w.r_sel
    IN  [w EXCEPT !.r_pic50 = 0, !.r_sel = 0,
                  !.r_qed = @ + redist_weight \div 2,
                  !.r_sa = @ + redist_weight \div 2]

\* `weights` as it stands when total_weight is computed
EffectiveWeights(p) ==
    IF "pIC50_KEAP1" \notin DOMAIN p.d
    THEN Redistribute(DefaultWeights)
    ELSE DefaultWeights

\* sum(weights.values())
SumWeights(w) ==
    w.r_pic50 + w.r_sel + w.r_qed + w.r_cns + w.r_bbb + w.r_sa

\* the six squashed objectives
Objectives(p) ==
    [r_pic50 |-> _sigmoid(Get(p, "pIC50_KEAP1", 0), 20, 750),
     r_sel   |-> _sigmoid(Get(p, "Selectivity_Score", 0), 15, 250),
     r_qed   |-> _sigmoid(Get(p, "QED", 0), 100, 60),
     r_cns   |-> _sigmoid(Get(p, "CNS_MPO", 0), 150, 50),
     r_bbb   |-> _sigmoid(Get(p, "BBB_Score", 0), 100, 70),
     r_sa    |-> _sigmoid(-Get(p, "SA_Score", 1000), 10, -350)]

\* np.clip(score, lo, hi)
Clip(score, lo, hi) == Max(lo, Min(score, hi))

\* -1.0 returned for a missing record
NullRewardSentinel == -Unit

\* the value returned for a missing record and for a zero total weight: 0.01
NullReward == Unit \div 100

\* the locals and the returned value of calculate_multi_objective_reward(p)
RewardFrame(p) ==
    IF Falsy(p)
    THEN [weights |-> NoValue, total_weight |-> NoValue, value |-> NullReward]
    ELSE LET r == Objectives(p)
             w == EffectiveWeights(p)
             t == SumWeights(w)
             num == w.r_pic50 * r.r_pic50 + w.r_sel * r.r_sel
                    + w.r_qed * r.r_qed + w.r_cns * r.r_cns
                    + w.r_bbb * r.r_bbb + w.r_sa * r.r_sa
         IN  [weights |-> w, total_weight |-> t,
              value |-> IF t = 0 THEN NullReward
                        ELSE Clip(num \div t, 0, Unit)]

calculate_multi_objective_reward(p) == RewardFrame(p).value

----------------------------------------------------------------------------
(* The collaborators: what the toolkit and the predictors do on an input.  *)
(* An encoding is a record of the toolkit's outcomes on it.                *)

\* Chem.MolFromSmiles(smiles): "mol", "None" (unparsable) or "raise"
MolFromSmiles(smi) == smi.parse

\* the descriptor profiles of the molecules that parse: the three
\* quantities the BBB penalties test and QED vary independently; a polar
\* molecule is also the large one
SmallMol == [mw |-> 4607, rot |-> 0, rings |-> 0, sascore |-> 198]
LargeMol == [mw |-> 65000, rot |-> 12, rings |-> 4, sascore |-> 450]

Profile(tpsa, hbd, logp, qed) ==
    [tpsa |-> tpsa, hbd |-> hbd, logp |-> logp, qed |-> qed,
     size |-> IF tpsa > 9000 THEN LargeMol ELSE SmallMol]

Profiles ==
    {Profile(t, h, l, q) :
        t \in {2023, 9500}, h \in {1, 6}, l \in {0, 550}, q \in {41, 80}}

DefaultProfile == Profile(2023, 1, 0, 41)

\* which collaborator call raises on a molecule that passed the filter:
\* none, Descriptors.qed, sascorer.calculateScore, Descriptors.MolWt,
\* MORGAN_GENERATOR.GetFingerprint
Faults == {"none", "qed", "sascorer", "molwt", "features"}

Enc(parse, sanitize, pains, fault, prof) ==
    [parse |-> parse, sanitize |-> sanitize, pains |-> pains,
     fault |-> fault, prof |-> prof]

\* encodings the filter rejects
RejectedEncodings ==
    {Enc("None", "ok", "no", "none", DefaultProfile),
     Enc("raise", "ok", "no", "none", DefaultProfile),
     Enc("mol", "fail", "no", "none", DefaultProfile),
     Enc("mol", "ok", "match", "none", DefaultProfile),
     Enc("mol", "ok", "raise", "none", DefaultProfile)}

\* encodings the filter lets through
AcceptedEncodings ==
    {Enc("mol", "ok", "no", "none", p) : p \in Profiles}
    \cup {Enc("mol", "ok", "no", f, DefaultProfile) : f \in Faults}

Encodings == RejectedEncodings \cup AcceptedEncodings

\* a predictor argument: None, or a model whose predict raises or returns out
NoModel == [present |-> FALSE, raises |-> FALSE, out |-> 0]
Model(raises, out) == [present |-> TRUE, raises |-> raises, out |-> out]
Keap1 == Model(FALSE, 800)
Egfr == Model(FALSE, 500)
Ikkb == Model(FALSE, 700)
Failing == Model(TRUE, 0)

\* the triples <<keap1_m, egfr_m, ikkb_m>>: each predictor given or not, and
\* with all three given, each failing alone or all failing
ModelTriples ==
    ({NoModel, Keap1} \X {NoModel, Egfr} \X {NoModel, Ikkb})
    \cup {<<Failing, Egfr, Ikkb>>, <<Keap1, Failing, Ikkb>>,
          <<Keap1, Egfr, Failing>>, <<Failing, Failing, Failing>>,
          <<Model(FALSE, 600), Egfr, Ikkb>>}

\* the truth value of a predictor argument in `if keap1_m and egfr_m and ikkb_m`
Truthy(m) == m.present

----------------------------------------------------------------------------
(* The filter predicates. *)

\* check_valency(mol): Chem.SanitizeMol raised (False) or not (True)
check_valency(smi) == smi.sanitize = "ok"

\* has_pains(mol): "no", "match", or "raise" when HasMatch raises
has_pains(smi) == smi.pains

\* the filter without the has_pains test
FilterWithoutAlerts(smi) ==
    IF MolFromSmiles(smi) # "mol" THEN "reject"
    ELSE IF ~check_valency(smi) THEN "reject"
    ELSE "pass"

\* lines 100-105: the try block; every exception in it returns None
Filter(smi) ==
    IF MolFromSmiles(smi) # "mol" THEN "reject"
    ELSE IF ~check_valency(smi) THEN "reject"
    ELSE IF has_pains(smi) # "no" THEN "reject"
    ELSE "pass"

----------------------------------------------------------------------------
(* calculate_cns_mpo and calculate_sa_score. *)

\* np.mean of the four desirabilities, in hundredths
calculate_cns_mpo(smi) ==
    LET p == smi.prof
        dl == p.logp - 250
        dt == p.tpsa - 7500
        dm == p.size.mw - 40000
        s1 == ExpNeg((dl * dl) \div 20)
        s2 == ExpNeg(((dt \div 10) * (dt \div 10)) \div 180)
        s3 == ExpNeg(((dm \div 10) * (dm \div 10)) \div 2000)
        s4 == IF 10 * p.hbd > 25 THEN ExpNeg(1000 * p.hbd - 2500) ELSE Unit
    IN  ((s1 + s2 + s3 + s4) \div 4) \div 100

\* the except ImportError branch: the approximation, capped at 10.0
SaFallback(smi) ==
    LET p == smi.prof
        score == 250 + p.size.mw \div 1000 + 20 * p.size.rot
                 + (30 * Abs(p.logp - 250)) \div 100
    IN  Min(score, 1000)

\* calculate_sa_score(mol): what it returns or that it raised, and what it
\* did to sys.path and sys.modules on the way
calculate_sa_score(smi, available) ==
    IF available
    THEN [appended |-> 1, imported |-> TRUE,
          raised |-> smi.fault = "sascorer", value |-> smi.prof.size.sascore]
    ELSE [appended |-> 1, imported |-> FALSE,
          raised |-> FALSE, value |-> SaFallback(smi)]

----------------------------------------------------------------------------
(* calculate_advanced_properties. *)

\* the BBB score with the three penalties as alternatives (if / elif)
BBB_FirstPenaltyOnly(smi) ==
    LET p == smi.prof
    IN  IF p.tpsa > 9000 THEN 100 - 10
        ELSE IF p.hbd > 5 THEN 100 - 10
        ELSE IF p.logp > 500 THEN 100 - 10
        ELSE 100

\* bbb_score: 1.0 less 0.1 for each of the three conditions, in hundredths
BBB_Score(smi) ==
    LET p == smi.prof
    IN  100 - (IF p.tpsa > 9000 THEN 10 ELSE 0)
            - (IF p.hbd > 5 THEN 10 ELSE 0)
            - (IF p.logp > 500 THEN 10 ELSE 0)

\* the dict `result` once BBB_Score is set, given the SA score
BaseResult(smi, sa) ==
    [k \in {"SMILES", "QED", "CNS_MPO", "SA_Score", "RingCount", "MolWt",
            "BBB_Score"} |->
        CASE k = "SMILES" -> smi
          [] k = "QED" -> smi.prof.qed
          [] k = "CNS_MPO" -> calculate_cns_mpo(smi)
          [] k = "SA_Score" -> sa
          [] k = "RingCount" -> smi.prof.size.rings
          [] k = "MolWt" -> smi.prof.size.mw
          [] k = "BBB_Score" -> BBB_Score(smi)]

\* the argument of result.update
PredictorFields(pic50_keap1, pic50_egfr, pic50_ikkb) ==
    [k \in {"pIC50_KEAP1", "pIC50_EGFR", "pIC50_IKKb", "Selectivity_Score"} |->
        CASE k = "pIC50_KEAP1" -> pic50_keap1
          [] k = "pIC50_EGFR" -> pic50_egfr
          [] k = "pIC50_IKKb" -> pic50_ikkb
          [] k = "Selectivity_Score" -> pic50_keap1 - Max(pic50_egfr, pic50_ikkb)]

\* the predictor block storing each prediction as it arrives and returning
\* the record as it stands when a call raises
PredictorBlockStepwise(smi, keap1_m, egfr_m, ikkb_m, result) ==
    IF ~(Truthy(keap1_m) /\ Truthy(egfr_m) /\ Truthy(ikkb_m))
    THEN [ret |-> Dict(result), warned |-> 0]
    ELSE IF smi.fault = "features" \/ keap1_m.raises
    THEN [ret |-> Dict(result), warned |-> 1]
    ELSE IF egfr_m.raises
    THEN [ret |-> Dict(("pIC50_KEAP1" :> keap1_m.out) @@ result), warned |-> 1]
    ELSE IF ikkb_m.raises
    THEN [ret |-> Dict(("pIC50_KEAP1" :> keap1_m.out)
                       @@ ("pIC50_EGFR" :> egfr_m.out) @@ result),
          warned |-> 1]
    ELSE [ret |-> Dict(PredictorFields(keap1_m.out, egfr_m.out, ikkb_m.out)
                       @@ result),
          warned |-> 0]

\* lines 122-140: the predictor block and the return
PredictorBlock(smi, keap1_m, egfr_m, ikkb_m, result) ==
    IF ~(Truthy(keap1_m) /\ Truthy(egfr_m) /\ Truthy(ikkb_m))
    THEN [ret |-> Dict(result), warned |-> 0]
    ELSE IF smi.fault = "features"
            \/ keap1_m.raises \/ egfr_m.raises \/ ikkb_m.raises
    THEN [ret |-> None, warned |-> 1]
    ELSE [ret |-> Dict(PredictorFields(keap1_m.out, egfr_m.out, ikkb_m.out)
                       @@ result),
          warned |-> 0]

\* calculate_advanced_properties(smiles, keap1_m, egfr_m, ikkb_m): the value
\* it returns (or Raised), and what it did to sys.path, sys.modules and the log
calculate_advanced_properties(smi, keap1_m, egfr_m, ikkb_m, available) ==
    IF Filter(smi) = "reject"
    THEN [ret |-> None, appended |-> 0, imported |-> FALSE, warned |-> 0]
    ELSE IF smi.fault = "qed"
    THEN [ret |-> Raised, appended |-> 0, imported |-> FALSE, warned |-> 0]
    ELSE LET sa == calculate_sa_score(smi, available)
         IN  IF sa.raised \/ smi.fault = "molwt"
             THEN [ret |-> Raised, appended |-> sa.appended,
                   imported |-> sa.imported, warned |-> 0]
             ELSE LET blk == PredictorBlock(smi, keap1_m, egfr_m, ikkb_m,
                                            BaseResult(smi, sa.value))
                  IN  [ret |-> blk.ret, appended |-> sa.appended,
                       imported |-> sa.imported, warned |-> blk.warned]

----------------------------------------------------------------------------
(* Specification of single calls: a caller evaluates one encoding and may  *)
(* hand the outcome to the reward.                                         *)

InitGlobals ==
    /\ sascorer_available \in BOOLEAN
    /\ PAINS_CATALOG = "PAINS"
    /\ sys_path = 0
    /\ sys_modules = FALSE
    /\ log = 0

InitEvalVars == smiles = NoValue /\ models = NoValue /\ ret = NoValue

InitRewardVars ==
    /\ props = NoValue /\ weights = NoValue /\ total_weight = NoValue
    /\ reward = NoValue /\ props2 = NoValue /\ reward2 = NoValue

InitBatchVars ==
    smiles_list = <<>> /\ pos = 0 /\ results = <<>> /\ pc = "idle"

InitEval == InitGlobals /\ InitEvalVars /\ InitRewardVars /\ InitBatchVars

\* a new evaluation: no reward has been computed for its outcome yet
ClearReward ==
    /\ props' = NoValue /\ weights' = NoValue /\ total_weight' = NoValue
    /\ reward' = NoValue /\ props2' = NoValue /\ reward2' = NoValue

\* the effect of one call on the process-wide state
Effects(out) ==
    /\ sys_path' = sys_path + out.appended
    /\ sys_modules' = (sys_modules \/ out.imported)
    /\ log' = log + out.warned
    /\ UNCHANGED <<sascorer_available, PAINS_CATALOG>>

CallAdvancedProperties(smi, m) ==
    /\ sys_path < MaxCalls /\ log < MaxCalls
    /\ LET out == calculate_advanced_properties(smi, m[1], m[2], m[3],
                                                sascorer_available)
       IN  /\ smiles' = smi /\ models' = m /\ ret' = out.ret
           /\ Effects(out)
    /\ ClearReward
    /\ UNCHANGED batchVars

\* the locals of calculate_multi_objective_reward(p) as values
Float(v) == [py |-> "float", v |-> v]
FrameWeights(p) ==
    IF Falsy(p) THEN NoValue ELSE Dict(RewardFrame(p).weights)
FrameTotal(p) ==
    IF Falsy(p) THEN NoValue ELSE Float(RewardFrame(p).total_weight)

RewardOfResult ==
    /\ ret.py \in {"None", "dict"}
    /\ props.py = "unset"
    /\ props' = ret
    /\ weights' = FrameWeights(ret)
    /\ total_weight' = FrameTotal(ret)
    /\ reward' = Float(calculate_multi_objective_reward(ret))
    /\ UNCHANGED <<props2, reward2>>
    /\ UNCHANGED <<globals, evalVars, batchVars>>

NextEval ==
    \/ \E smi \in Encodings, m \in ModelTriples : CallAdvancedProperties(smi, m)
    \/ RewardOfResult

SpecEval == InitEval /\ [][NextEval]_vars

----------------------------------------------------------------------------
(* Specification of the reward alone: the argument is any record of the    *)
(* bounded set below, None or the empty dict; a second call is made on the *)
(* same record with another primary-target potency.                        *)

Absent == 0 - 2000000000
Big == 10 * 1000 * 1000          \* 1e5, in hundredths
Huge == 100 * 1000 * 1000        \* 1e6, in hundredths

RewardKeys ==
    {"pIC50_KEAP1", "Selectivity_Score", "QED", "CNS_MPO", "BBB_Score",
     "SA_Score"}

PotencyValues == {-Big, 700, 800, Big}

\* the value a choice gives each key, Absent for a key the dict lacks
Choice(pic50, sel, qed, cns, bbb, sa) ==
    [k \in RewardKeys |->
        CASE k = "pIC50_KEAP1" -> pic50
          [] k = "Selectivity_Score" -> sel
          [] k = "QED" -> qed
          [] k = "CNS_MPO" -> cns
          [] k = "BBB_Score" -> bbb
          [] k = "SA_Score" -> sa]

RewardChoices ==
    {Choice(pic50, sel, qed, cns, bbb, sa) :
        pic50 \in {Absent} \cup PotencyValues,
        sel \in {Absent, -300, 400},
        qed \in {Absent, 41, 80, -Big},
        cns \in {Absent, 30, 90},
        bbb \in {Absent, 70, 100},
        sa \in {Absent, 0, 198, Huge}}

\* the dict holding the keys a choice gives a value
MkDict(c) == Dict([k \in {x \in RewardKeys : c[x] # Absent} |-> c[k]])

RewardInputs == {None} \cup {MkDict(c) : c \in RewardChoices}

InitReward ==
    /\ InitGlobals /\ InitEvalVars /\ InitBatchVars
    /\ props \in RewardInputs
    /\ weights = NoValue /\ total_weight = NoValue /\ reward = NoValue
    /\ props2 = NoValue /\ reward2 = NoValue

CallReward ==
    /\ reward.py = "unset"
    /\ weights' = FrameWeights(props)
    /\ total_weight' = FrameTotal(props)
    /\ reward' = Float(calculate_multi_objective_reward(props))
    /\ UNCHANGED <<props, props2, reward2>>
    /\ UNCHANGED <<globals, evalVars, batchVars>>

CallRewardOnVariant(v) ==
    /\ props2.py = "unset"
    /\ props.py = "dict"
    /\ "pIC50_KEAP1" \in DOMAIN props.d
    /\ props2' = Dict([props.d EXCEPT !["pIC50_KEAP1"] = v])
    /\ reward2' = Float(calculate_multi_objective_reward(props2'))
    /\ UNCHANGED <<props, weights, total_weight, reward>>
    /\ UNCHANGED <<globals, evalVars, batchVars>>

NextReward ==
    \/ CallReward
    \/ \E v \in PotencyValues : CallRewardOnVariant(v)

SpecReward == InitReward /\ [][NextReward]_vars

----------------------------------------------------------------------------
(* calculate_advanced_properties_parallel. *)

\* the encodings and predictor triples the batch driver is run on
BatchEncodings ==
    {Enc("None", "ok", "no", "none", DefaultProfile),
     Enc("mol", "ok", "match", "none", DefaultProfile),
     Enc("mol", "ok", "no", "none", DefaultProfile),
     Enc("mol", "ok", "no", "none", Profile(9500, 6, 550, 80)),
     Enc("mol", "ok", "no", "molwt", DefaultProfile),
     Enc("mol", "ok", "no", "features", DefaultProfile)}

BatchModels ==
    {<<NoModel, NoModel, NoModel>>, <<Keap1, Egfr, Ikkb>>,
     <<Keap1, Failing, Ikkb>>}

\* all lists over S of length at most n
RECURSIVE ListsUpTo(_, _)
ListsUpTo(S, n) ==
    IF n = 0 THEN {<<>>}
    ELSE LET shorter == ListsUpTo(S, n - 1)
         IN  shorter \cup {Append(l, x) : l \in {y \in shorter : Len(y) = n - 1},
                                           x \in S}

\* the loop body inserting at the front: results.insert(0, props)
CollectInFront(res, p) == IF ~Falsy(p) THEN <<p>> \o res ELSE res

\* the loop body after the call: `if props: results.append(props)`
Collect(res, p) == IF ~Falsy(p) THEN Append(res, p) ELSE res

InitBatch ==
    /\ InitGlobals /\ InitRewardVars
    /\ smiles_list \in ListsUpTo(BatchEncodings, MaxLen)
    /\ models \in BatchModels
    /\ smiles = NoValue /\ ret = NoValue
    /\ pos = 0 /\ results = <<>> /\ pc = "idle"

\* entry: results = []
BatchEnter ==
    /\ pc = "idle"
    /\ pc' = "loop" /\ pos' = 0 /\ results' = <<>>
    /\ UNCHANGED <<smiles_list, smiles, models, ret, globals, rewardVars>>

\* one iteration of the for loop
BatchIterate ==
    /\ pc = "loop"
    /\ pos < Len(smiles_list)
    /\ LET smi == smiles_list[pos + 1]
           out == calculate_advanced_properties(smi, models[1], models[2],
                                                models[3], sascorer_available)
       IN  /\ smiles' = smi /\ ret' = out.ret
           /\ Effects(out)
           /\ IF out.ret.py = "raise"
              THEN pc' = "raised" /\ UNCHANGED <<pos, results>>
              ELSE /\ pc' = "loop" /\ pos' = pos + 1
                   /\ results' = Collect(results, out.ret)
    /\ UNCHANGED <<smiles_list, models, rewardVars>>

\* return results
BatchReturn ==
    /\ pc = "loop"
    /\ pos = Len(smiles_list)
    /\ pc' = "returned"
    /\ UNCHANGED <<smiles_list, pos, results, smiles, models, ret, globals,
                   rewardVars>>

NextBatch == BatchEnter \/ BatchIterate \/ BatchReturn

SpecBatch == InitBatch /\ [][NextBatch]_vars

----------------------------------------------------------------------------
(* The claims. *)

OptionalKeys ==
    {"pIC50_KEAP1", "pIC50_EGFR", "pIC50_IKKb", "Selectivity_Score"}

\* a call of calculate_advanced_properties has returned or raised
Called == ret.py # "unset"

\* C1: for every encoding that fails to parse, fails the valency check or
\* matches a structural alert, whatever the predictors,
\* calculate_advanced_properties returns None without raising, and the
\* reward of that result is exactly 0.01.
C1_RejectedGivesNoneAndFloor ==
    (Called /\ (smiles.parse \in {"None", "raise"}
                \/ smiles.sanitize = "fail"
                \/ smiles.pains = "match"))
    => /\ ret.py = "None"
       /\ (reward.py = "float" => reward.v = 100)

\* C1 witness: an encoding matching a structural alert was evaluated with
\* all three predictors given, and the reward of the outcome was computed.
C1_Witness ==
    /\ Called /\ smiles.pains = "match"
    /\ \A i \in 1..3 : models[i].present
    /\ ret.py = "None" /\ reward.py = "float" /\ reward.v = 100

\* C2: a returned record holds all four optional keys or none of them; it
\* holds all four exactly when all three predictors were given and none of
\* them raised; and with all three given and one raising, a call that does
\* not end earlier returns None, not a record.
C2_PredictorBlockAtomic ==
    Called =>
       /\ ret.py = "dict" =>
             LET present == OptionalKeys \cap DOMAIN ret.d
             IN  /\ present = {} \/ present = OptionalKeys
                 /\ (present = OptionalKeys)
                    <=> (\A i \in 1..3 : models[i].present /\ ~models[i].raises)
       /\ ((\A i \in 1..3 : models[i].present)
           /\ (\E i \in 1..3 : models[i].raises)
           /\ ret.py # "raise")
          => ret.py = "None"

\* C2 witness: a record with the whole predictor block was returned.
C2_Witness ==
    /\ Called /\ ret.py = "dict" /\ OptionalKeys \subseteq DOMAIN ret.d
    /\ ret.d["Selectivity_Score"] = 100

\* C3 as stated: without the potency and selectivity keys the weights used
\* are potency 0, selectivity 0, drug-likeness 0.275, synthesis-ease 0.225,
\* CNS 0.10, BBB 0.10.
C3_Original ==
    (reward.py = "float" /\ props.py = "dict" /\ DOMAIN props.d # {}
     /\ "pIC50_KEAP1" \notin DOMAIN props.d
     /\ "Selectivity_Score" \notin DOMAIN props.d)
    => weights.d = [r_pic50 |-> 0, r_sel |-> 0, r_qed |-> 275,
                    r_cns |-> 100, r_bbb |-> 100, r_sa |-> 225]

\* C3 amended: without the potency and selectivity keys the weights used
\* are potency 0, selectivity 0, drug-likeness 0.15 + 0.275 = 0.425,
\* synthesis-ease 0.10 + 0.275 = 0.375, CNS 0.10, BBB 0.10.
C3_RedistributedWeights ==
    (reward.py = "float" /\ props.py = "dict" /\ DOMAIN props.d # {}
     /\ "pIC50_KEAP1" \notin DOMAIN props.d
     /\ "Selectivity_Score" \notin DOMAIN props.d)
    => weights.d = [r_pic50 |-> 0, r_sel |-> 0, r_qed |-> 425,
                    r_cns |-> 100, r_bbb |-> 100, r_sa |-> 375]

\* C3 witness: the reward of a record without the two keys was computed.
C3_Witness ==
    /\ reward.py = "float" /\ props.py = "dict"
    /\ DOMAIN props.d = {"QED", "CNS_MPO", "BBB_Score", "SA_Score"}
    /\ weights.py = "dict"

\* the weights in `weights` sum to total_weight
SumOfUsed ==
    weights.d.r_pic50 + weights.d.r_sel + weights.d.r_qed
    + weights.d.r_cns + weights.d.r_bbb + weights.d.r_sa

\* C4: without the primary-target potency key, the potency and selectivity
\* weights are zero and each of drug-likeness and synthesis-ease gains half
\* of their combined default weight, CNS and BBB unchanged, before the total
\* is taken; so the divisor is the sum of the default weights with or
\* without the potency key, and never zero.
C4_HalfEachBeforeNormalisation ==
    (reward.py = "float" /\ props.py = "dict" /\ DOMAIN props.d # {})
    => /\ ("pIC50_KEAP1" \notin DOMAIN props.d
           => /\ weights.d.r_pic50 = 0 /\ weights.d.r_sel = 0
              /\ 2 * (weights.d.r_qed - 150) = 350 + 200
              /\ 2 * (weights.d.r_sa - 100) = 350 + 200
              /\ weights.d.r_cns = 100 /\ weights.d.r_bbb = 100)
       /\ total_weight.v = SumOfUsed
       /\ total_weight.v = 350 + 200 + 150 + 100 + 100 + 100
       /\ total_weight.v # 0

\* C4 witness: a reward computed without the potency key, selectivity given.
C4_Witness ==
    /\ reward.py = "float" /\ props.py = "dict"
    /\ "pIC50_KEAP1" \notin DOMAIN props.d
    /\ "Selectivity_Score" \in DOMAIN props.d
    /\ total_weight.py = "float" /\ total_weight.v = 1000

\* C5: the reward lies in [0, 1] for None, for a record without the optional
\* potency fields and for a record with them, extreme field values included.
C5_RewardInUnitInterval ==
    /\ reward.py = "float" => (0 <= reward.v /\ reward.v <= 10000)
    /\ reward2.py = "float" => (0 <= reward2.v /\ reward2.v <= 10000)

\* C5 witness: rewards of a record with SA score 1e6 and potency -1e5 and of
\* the same record with potency 1e5 were computed.
C5_Witness ==
    /\ reward.py = "float" /\ reward2.py = "float"
    /\ "SA_Score" \in DOMAIN props.d /\ props.d["SA_Score"] = Huge
    /\ props.d["pIC50_KEAP1"] = -Big /\ props2.d["pIC50_KEAP1"] = Big

\* C6: of two records that hold the primary-target potency and differ only
\* in it, the one with the larger potency has the reward that is not smaller.
C6_MonotoneInPotency ==
    (reward.py = "float" /\ reward2.py = "float")
    => /\ (\A k \in DOMAIN props.d \ {"pIC50_KEAP1"} :
              props2.d[k] = props.d[k])
       /\ (props.d["pIC50_KEAP1"] <= props2.d["pIC50_KEAP1"]
           => reward.v <= reward2.v)
       /\ (props.d["pIC50_KEAP1"] >= props2.d["pIC50_KEAP1"]
           => reward.v >= reward2.v)

\* C6 witness: two records differing only in potency, 7.0 and 8.0, received
\* different rewards.
C6_Witness ==
    /\ reward.py = "float" /\ reward2.py = "float"
    /\ props.d["pIC50_KEAP1"] = 700 /\ props2.d["pIC50_KEAP1"] = 800
    /\ reward.v < reward2.v

\* C7 as stated: calculate_advanced_properties ends by returning a record or
\* None, never by raising, whichever collaborator call fails.
C7_NeverRaises == ret.py # "raise"

\* C8 as stated: a call of calculate_advanced_properties leaves the
\* process-wide state (module search path, loaded modules, structural-alert
\* catalog) as it was.
C8_GlobalsUntouched ==
    [][<<sys_path, sys_modules, PAINS_CATALOG>>'
       = <<sys_path, sys_modules, PAINS_CATALOG>>]_vars

\* what the batch driver is to hold after n inputs: the records of those
\* among the first n inputs that evaluate to a record, in input order
RECURSIVE RecordsOfPrefix(_, _)
RecordsOfPrefix(list, n) ==
    IF n = 0 THEN <<>>
    ELSE LET r == calculate_advanced_properties(
                      list[n], models[1], models[2], models[3],
                      sascorer_available).ret
         IN  IF r.py = "dict" THEN Append(RecordsOfPrefix(list, n - 1), r)
             ELSE RecordsOfPrefix(list, n - 1)

\* C9: after any prefix of the input the results are exactly the records of
\* the inputs of that prefix that evaluate to non-null, one each, in input
\* order; the returned list is that of the whole input.
C9_ResultsAreOrderedSubsequence ==
    /\ pc # "idle" => results = RecordsOfPrefix(smiles_list, pos)
    /\ pc = "returned" => pos = Len(smiles_list)

\* C9 witness: a list of three was processed, its second input dropped, and
\* the records of the first and third, which differ, returned in that order.
C9_Witness ==
    /\ pc = "returned" /\ Len(smiles_list) = 3 /\ Len(results) = 2
    /\ results[1].d["SMILES"] = smiles_list[1]
    /\ results[2].d["SMILES"] = smiles_list[3]
    /\ smiles_list[1] # smiles_list[3]

\* the number of BBB penalty conditions a molecule meets
Penalties(prof) ==
    Cardinality({c \in {"tpsa", "hbd", "logp"} :
        \/ c = "tpsa" /\ prof.tpsa > 9000
        \/ c = "hbd" /\ prof.hbd > 5
        \/ c = "logp" /\ prof.logp > 500})

\* C10: in every returned record the BBB score is 1.0 less 0.1 for each of
\* TPSA > 90, donors > 5, logP > 5 that holds, unclamped: one of 1.0, 0.9,
\* 0.8, 0.7, never below 0.7.
C10_BBBScore ==
    (Called /\ ret.py = "dict")
    => /\ ret.d["BBB_Score"] = 100 - 10 * Penalties(smiles.prof)
       /\ ret.d["BBB_Score"] \in {100, 90, 80, 70}
       /\ ret.d["BBB_Score"] >= 70

\* C10 witness: a record of a molecule meeting all three conditions.
C10_Witness ==
    /\ Called /\ ret.py = "dict"
    /\ Penalties(smiles.prof) = 3 /\ ret.d["BBB_Score"] = 70

====
